---- MODULE Spec2Model ----
(***************************************************************************)
(* Model of src/src/04-date-tasks.js: five stateless date utilities.       *)
(*                                                                         *)
(* An instant (a JavaScript Date) is the integer count of milliseconds     *)
(* since 1970-01-01T00:00:00Z.  It is kept split as                        *)
(*     [day |-> floor(t / msPerDay), ms |-> t mod msPerDay]                *)
(* so that every intermediate quantity stays inside TLC's integers.        *)
(* Strings are sequences of one-character strings.                         *)
(***************************************************************************)
EXTENDS Integers, Sequences, FiniteSets, TLC

VARIABLES tz, pc, fn, arg, arg2, ret

vars == <<tz, pc, fn, arg, arg2, ret>>

(***************************************************************************)
(* Bounds of the model.                                                    *)
(***************************************************************************)
MinYear == 1895
MaxYear == 2105
MaxHours == 101

(***************************************************************************)
(* Time constants of the Date object (ECMAScript "Time Values and Time     *)
(* Range") and the literals of the source.                                 *)
(***************************************************************************)
msPerDay == 86400000
msPerHour == 3600000
msPerMinute == 60000
msPerSecond == 1000

None == [kind |-> "none"]

Abs(x) == IF x < 0 THEN -x ELSE x

Min(a, b) == IF a <= b THEN a ELSE b

RECURSIVE GCD(_, _)
GCD(a, b) == IF b = 0 THEN a ELSE GCD(b, a % b)

(***************************************************************************)
(* Date field readers.                                                     *)
(***************************************************************************)
getUTCHours(d) == d.ms \div msPerHour

getUTCMinutes(d) == (d.ms \div msPerMinute) % 60

\* Day number of the first day of year y (ECMAScript DayFromYear).
DayFromYear(y) ==
    365 * (y - 1970) + ((y - 1969) \div 4) - ((y - 1901) \div 100)
        + ((y - 1601) \div 400)

\* The years isLeapYear is asked about: MinYear..MaxYear and, for the sign
\* of the % operator, years before the year 1.
EarlyYears == {-400, -100, -4, -1, 0}

AskedYears == (MinYear..MaxYear) \cup EarlyYears

\* Year containing day number d (ECMAScript YearFromTime), for the days of
\* the years asked about and of the years next to them.
YearFromDay(d) ==
    CHOOSE y \in UNION {{a - 1, a, a + 1} : a \in AskedYears} :
        DayFromYear(y) <= d /\ d < DayFromYear(y + 1)

\* The instant as the host's local clock shows it: t + LocalTZA, where the
\* host's offset from UTC is z hours.
LocalTime(d, z) ==
    LET t == d.ms + z * msPerHour
    IN  [day |-> d.day + (t \div msPerDay), ms |-> t % msPerDay]

getFullYear(d, z) == YearFromDay(LocalTime(d, z).day)

\* JavaScript's % : the remainder takes the sign of the dividend.
JSRem(a, n) == IF a >= 0 THEN a % n ELSE -((-a) % n)

(***************************************************************************)
(* isLeapYear                                                              *)
(***************************************************************************)
\* isLeapYear with the test of the 400-year cycle left out.
isLeapYear_No400(d, z) ==
    IF JSRem(getFullYear(d, z), 100) = 0
    THEN FALSE
    ELSE JSRem(getFullYear(d, z), 4) = 0

isLeapYear(d, z) ==
    IF JSRem(getFullYear(d, z), 100) = 0
    THEN IF JSRem(getFullYear(d, z), 400) = 0 THEN TRUE ELSE FALSE
    ELSE JSRem(getFullYear(d, z), 4) = 0

(***************************************************************************)
(* angleBetweenClockHands                                                  *)
(*                                                                         *)
(* minutes / 2 is the only fractional quantity of the function, so every   *)
(* degree value is carried doubled (in half degrees): shiftH, shiftM, hzH  *)
(* and result below are twice the source's variables, 180 becomes 360 and  *)
(* 360 becomes 720.  A returned number of radians is the exact fraction    *)
(* num/den of pi, in lowest terms.                                         *)
(***************************************************************************)
Math_PI == [num |-> 1, den |-> 1]

\* deg2 half degrees, converted: (deg2 / 2) * pi / 180.
ToRadians(deg2) ==
    LET g == GCD(Abs(deg2), 360)
    IN  [num |-> deg2 \div g, den |-> 360 \div g]

\* The hour used as it is read, never reduced.
Hours12_NotReduced(h) == h

Hours12(h) == IF h > 12 THEN h - 12 ELSE h

ClockResult(d) ==
    LET hours == Hours12(getUTCHours(d))
        minutes == getUTCMinutes(d)
        shiftH == minutes
        shiftM == 2 * (minutes * 6)
        hzH == 2 * (hours * 30)
    IN  IF shiftM > hzH
        THEN shiftM - hzH - shiftH
        ELSE hzH - shiftM + shiftH

\* angleBetweenClockHands without the branch for a result above 180.
angleBetweenClockHands_NoReflex(d) ==
    LET result == ClockResult(d)
    IN  IF result = 360 THEN Math_PI ELSE ToRadians(result)

angleBetweenClockHands(d) ==
    LET result == ClockResult(d)
    IN  IF result > 360 THEN ToRadians(720 - result)
        ELSE IF result = 360 THEN Math_PI
        ELSE ToRadians(result)

(***************************************************************************)
(* Number <-> string conversions used by timeSpanToString.                 *)
(***************************************************************************)
DigitChars == <<"0", "1", "2", "3", "4", "5", "6", "7", "8", "9">>

IsDigit(c) == \E k \in 1..10 : DigitChars[k] = c

DigitValue(c) == (CHOOSE k \in 1..10 : DigitChars[k] = c) - 1

RECURSIVE Digits(_)
Digits(n) ==
    IF n < 10 THEN <<DigitChars[n + 1]>>
    ELSE Append(Digits(n \div 10), DigitChars[(n % 10) + 1])

\* A Date whose time value is NaN.
InvalidDate == [invalid |-> TRUE]

\* A JavaScript number of timeSpanToString: an integer n, or NaN.
Num(n) == [nan |-> FALSE, n |-> n]

NaN == [nan |-> TRUE, n |-> 0]

NumSub(a, b) == IF a.nan \/ b.nan THEN NaN ELSE Num(a.n - b.n)

NumMul(a, k) == IF a.nan THEN NaN ELSE Num(a.n * k)

\* Math.floor(a / k) for an integer a and k > 0.
NumFloorDiv(a, k) == IF a.nan THEN NaN ELSE Num(a.n \div k)

\* Math.abs
NumAbs(a) == IF a.nan THEN NaN ELSE Num(Abs(a.n))

\* Number.prototype.toString(), and a number in a template literal.
NumberToString(a) ==
    IF a.nan THEN <<"N", "a", "N">>
    ELSE IF a.n < 0 THEN <<"-">> \o Digits(-a.n) ELSE Digits(a.n)

RECURSIVE DigitsValue(_)
DigitsValue(s) ==
    IF s = <<>> THEN 0
    ELSE 10 * DigitsValue(SubSeq(s, 1, Len(s) - 1)) + DigitValue(s[Len(s)])

AllDigits(s) == s # <<>> /\ \A i \in 1..Len(s) : IsDigit(s[i])

\* ToNumber of a string, as the * operator applies it to hours, minutes and
\* secs: decimal digits with an optional sign (the empty string is 0),
\* anything else is NaN.
ToNumber(s) ==
    IF s = <<>> THEN Num(0)
    ELSE IF AllDigits(s) THEN Num(DigitsValue(s))
    ELSE IF s # <<>> /\ s[1] = "-" /\ AllDigits(Tail(s))
         THEN Num(-DigitsValue(Tail(s)))
    ELSE NaN

\* The largest time value of a Date is 8.64e15 ms: 100,000,000 days.
MaxDateDay == 100000000

\* endDate - startDate: the difference of the two time values, a number of
\* milliseconds kept split in days and milliseconds like an instant.
Minus(a, b) ==
    LET t == a.ms - b.ms
    IN  [day |-> a.day - b.day + (t \div msPerDay), ms |-> t % msPerDay]

\* new Date(x) for a number x: TimeClip makes a number beyond +-8.64e15 an
\* Invalid Date.
TimeClip(x) ==
    IF \/ x.day > MaxDateDay
       \/ x.day = MaxDateDay /\ x.ms > 0
       \/ x.day < -MaxDateDay
    THEN InvalidDate
    ELSE x

\* The number a Date converts to: its time value.
DateValueOf(d) ==
    IF d = InvalidDate THEN NaN ELSE Num(d.day * msPerDay + d.ms)

(***************************************************************************)
(* timeSpanToString                                                        *)
(***************************************************************************)
\* The difference with its sign kept.
SpanDif_Signed(startDate, endDate) ==
    DateValueOf(TimeClip(Minus(endDate, startDate)))

\* Math.abs(new Date((endDate - startDate)))
SpanDif(startDate, endDate) ==
    NumAbs(DateValueOf(TimeClip(Minus(endDate, startDate))))

\* if (x.length < 2) { x = `0${x}`; }
PadTwo(s) == IF Len(s) < 2 THEN <<"0">> \o s ELSE s

\* if (mlsecs.length < 2) { "00" + mlsecs }  if (mlsecs.length < 3) { "0" + mlsecs }
PadMlsecs(s) ==
    LET mlsecs1 == IF Len(s) < 2 THEN <<"0", "0">> \o s ELSE s
    IN  IF Len(mlsecs1) < 3 THEN <<"0">> \o mlsecs1 ELSE mlsecs1

timeSpanToString(startDate, endDate) ==
    LET dif == SpanDif(startDate, endDate)
        hours == PadTwo(NumberToString(NumFloorDiv(dif, 3600000)))
        minutes ==
            PadTwo(NumberToString(NumAbs(NumFloorDiv(
                NumSub(dif, NumMul(ToNumber(hours), 3600000)),
                60000))))
        secs ==
            PadTwo(NumberToString(NumAbs(NumFloorDiv(
                NumSub(NumSub(dif, NumMul(ToNumber(hours), 3600000)),
                       NumMul(ToNumber(minutes), 60000)),
                1000))))
        mlsecs ==
            PadMlsecs(NumberToString(NumAbs(
                NumSub(NumSub(NumSub(dif, NumMul(ToNumber(hours), 3600000)),
                              NumMul(ToNumber(minutes), 60000)),
                       NumMul(ToNumber(secs), 1000)))))
    IN  hours \o <<":">> \o minutes \o <<":">> \o secs \o <<".">> \o mlsecs

(***************************************************************************)
(* new Date(value) for a string value: Date.parse.  The string is read as  *)
(* the ECMAScript date-time format (a simplification of ISO 8601) and,     *)
(* failing that, by the engine's fallback for the RFC 2822 forms of the    *)
(* doc comments.  A string that neither reads gives the time value NaN,    *)
(* an Invalid Date.  zhost is the host's offset from UTC in hours, used    *)
(* for a text that names no zone.                                          *)
(***************************************************************************)
\* Position of the first c in s, 0 when there is none.
IndexOf(s, c) ==
    IF \E i \in 1..Len(s) : s[i] = c
    THEN CHOOSE i \in 1..Len(s) : s[i] = c /\ \A j \in 1..(i - 1) : s[j] # c
    ELSE 0

\* The instant n milliseconds after d.
Plus(d, n) ==
    [day |-> d.day + ((d.ms + n) \div msPerDay), ms |-> (d.ms + n) % msPerDay]

DigitsAt(s, i, n) ==
    i + n - 1 <= Len(s) /\ \A k \in i..(i + n - 1) : IsDigit(s[k])

NumAt(s, i, n) == DigitsValue(SubSeq(s, i, i + n - 1))

InLeapYear(y) == DayFromYear(y + 1) - DayFromYear(y) = 366

DaysInMonth(y, m) ==
    IF m = 2 THEN (IF InLeapYear(y) THEN 29 ELSE 28)
    ELSE IF m \in {4, 6, 9, 11} THEN 30 ELSE 31

RECURSIVE DaysBeforeMonth(_, _)
DaysBeforeMonth(y, m) ==
    IF m = 1 THEN 0 ELSE DaysBeforeMonth(y, m - 1) + DaysInMonth(y, m - 1)

MakeDay(y, m, d) == DayFromYear(y) + DaysBeforeMonth(y, m) + d - 1

MakeTime(h, mi, sec, ms) ==
    h * msPerHour + mi * msPerMinute + sec * msPerSecond + ms

ValidFields(y, m, d, h, mi, sec) ==
    /\ m \in 1..12
    /\ d \in 1..DaysInMonth(y, m)
    /\ h \in 0..23
    /\ mi \in 0..59
    /\ sec \in 0..59

\* The instant of the fields read in a zone offMin minutes east of UTC.
MakeDate(y, m, d, h, mi, sec, ms, offMin) ==
    Plus([day |-> MakeDay(y, m, d), ms |-> 0],
         MakeTime(h, mi, sec, ms) - offMin * msPerMinute)

\* The zone designator of the date-time format: none (local time), Z, or
\* +HH:mm / -HH:mm.
IsoZone(s, zhost) ==
    IF s = <<>> THEN [ok |-> TRUE, min |-> zhost * 60]
    ELSE IF s = <<"Z">> THEN [ok |-> TRUE, min |-> 0]
    ELSE IF /\ Len(s) = 6 /\ s[1] \in {"+", "-"} /\ DigitsAt(s, 2, 2)
            /\ s[4] = ":" /\ DigitsAt(s, 5, 2)
         THEN [ok |-> NumAt(s, 2, 2) <= 23 /\ NumAt(s, 5, 2) <= 59,
               min |-> (IF s[1] = "-" THEN -1 ELSE 1)
                           * (NumAt(s, 2, 2) * 60 + NumAt(s, 5, 2))]
         ELSE [ok |-> FALSE, min |-> 0]

\* YYYY-MM-DD (UTC) or YYYY-MM-DDTHH:mm:ss[.sss][zone].
IsoParse(s, zhost) ==
    IF ~(/\ DigitsAt(s, 1, 4) /\ Len(s) >= 10 /\ s[5] = "-"
         /\ DigitsAt(s, 6, 2) /\ s[8] = "-" /\ DigitsAt(s, 9, 2))
    THEN InvalidDate
    ELSE
        LET y == NumAt(s, 1, 4)
            m == NumAt(s, 6, 2)
            d == NumAt(s, 9, 2)
        IN  IF Len(s) = 10
            THEN IF ValidFields(y, m, d, 0, 0, 0)
                 THEN MakeDate(y, m, d, 0, 0, 0, 0, 0)
                 ELSE InvalidDate
            ELSE IF ~(/\ Len(s) >= 19 /\ s[11] = "T" /\ DigitsAt(s, 12, 2)
                      /\ s[14] = ":" /\ DigitsAt(s, 15, 2)
                      /\ s[17] = ":" /\ DigitsAt(s, 18, 2))
            THEN InvalidDate
            ELSE
                LET h == NumAt(s, 12, 2)
                    mi == NumAt(s, 15, 2)
                    sec == NumAt(s, 18, 2)
                    hasMs == /\ Len(s) >= 23 /\ s[20] = "."
                             /\ DigitsAt(s, 21, 3)
                    ms == IF hasMs THEN NumAt(s, 21, 3) ELSE 0
                    zone ==
                        IsoZone(SubSeq(s, IF hasMs THEN 24 ELSE 20, Len(s)),
                                zhost)
                IN  IF ValidFields(y, m, d, h, mi, sec) /\ zone.ok
                    THEN MakeDate(y, m, d, h, mi, sec, ms, zone.min)
                    ELSE InvalidDate

MonthNames ==
    <<<<"J", "a", "n">>,
      <<"F", "e", "b">>,
      <<"M", "a", "r">>,
      <<"A", "p", "r">>,
      <<"M", "a", "y">>,
      <<"J", "u", "n">>,
      <<"J", "u", "l">>,
      <<"A", "u", "g">>,
      <<"S", "e", "p">>,
      <<"O", "c", "t">>,
      <<"N", "o", "v">>,
      <<"D", "e", "c">>>>

DayNames ==
    {<<"S", "u", "n">>,
     <<"M", "o", "n">>,
     <<"T", "u", "e">>,
     <<"W", "e", "d">>,
     <<"T", "h", "u">>,
     <<"F", "r", "i">>,
     <<"S", "a", "t">>}

\* The words of s, separated by spaces.
RECURSIVE Words(_)
Words(s) ==
    IF s = <<>> THEN <<>>
    ELSE LET i == IndexOf(s, " ")
         IN  IF i = 0 THEN <<s>>
             ELSE IF i = 1 THEN Words(Tail(s))
             ELSE <<SubSeq(s, 1, i - 1)>> \o Words(SubSeq(s, i + 1, Len(s)))

StripComma(w) ==
    IF w # <<>> /\ w[Len(w)] = "," THEN SubSeq(w, 1, Len(w) - 1) ELSE w

\* 1..12 for a word that starts with a month's three letters, 0 otherwise.
MonthNumber(w) ==
    IF Len(w) >= 3 /\ \E k \in 1..12 : MonthNames[k] = SubSeq(w, 1, 3)
    THEN CHOOSE k \in 1..12 : MonthNames[k] = SubSeq(w, 1, 3)
    ELSE 0

IsDayName(w) == Len(w) >= 3 /\ SubSeq(w, 1, 3) \in DayNames

IsClock(w) ==
    /\ Len(w) = 8
    /\ DigitsAt(w, 1, 2) /\ w[3] = ":"
    /\ DigitsAt(w, 4, 2) /\ w[6] = ":"
    /\ DigitsAt(w, 7, 2)

\* The zone word of the RFC 2822 forms: GMT, UT, UTC, Z, GMT+hh, GMT-hh,
\* +hhmm or -hhmm.
LegacyZone(w) ==
    IF w \in {<<"G", "M", "T">>, <<"U", "T">>, <<"U", "T", "C">>, <<"Z">>}
    THEN [ok |-> TRUE, min |-> 0]
    ELSE IF /\ Len(w) = 6 /\ SubSeq(w, 1, 3) = <<"G", "M", "T">>
            /\ w[4] \in {"+", "-"} /\ DigitsAt(w, 5, 2)
         THEN [ok |-> NumAt(w, 5, 2) <= 23,
               min |-> (IF w[4] = "-" THEN -1 ELSE 1) * NumAt(w, 5, 2) * 60]
    ELSE IF Len(w) = 5 /\ w[1] \in {"+", "-"} /\ DigitsAt(w, 2, 4)
         THEN [ok |-> NumAt(w, 2, 2) <= 23 /\ NumAt(w, 4, 2) <= 59,
               min |-> (IF w[1] = "-" THEN -1 ELSE 1)
                           * (NumAt(w, 2, 2) * 60 + NumAt(w, 4, 2))]
    ELSE [ok |-> FALSE, min |-> 0]

\* [Www, ]DD Mon YYYY HH:MM:SS [zone]  or  Month DD, YYYY HH:MM:SS [zone];
\* without a zone word the fields are local time.
LegacyParse(s, zhost) ==
    LET all == Words(s)
        ws == IF all # <<>> /\ IsDayName(StripComma(all[1]))
              THEN Tail(all) ELSE all
        dayFirst ==
            /\ Len(ws) \in {4, 5}
            /\ AllDigits(ws[1]) /\ MonthNumber(ws[2]) # 0
            /\ AllDigits(ws[3]) /\ IsClock(ws[4])
        monthFirst ==
            /\ Len(ws) \in {4, 5}
            /\ MonthNumber(ws[1]) # 0 /\ AllDigits(StripComma(ws[2]))
            /\ AllDigits(ws[3]) /\ IsClock(ws[4])
    IN  IF ~(dayFirst \/ monthFirst) THEN InvalidDate
        ELSE
            LET y == DigitsValue(ws[3])
                m == IF dayFirst THEN MonthNumber(ws[2])
                     ELSE MonthNumber(ws[1])
                d == IF dayFirst THEN DigitsValue(ws[1])
                     ELSE DigitsValue(StripComma(ws[2]))
                h == NumAt(ws[4], 1, 2)
                mi == NumAt(ws[4], 4, 2)
                sec == NumAt(ws[4], 7, 2)
                zone == IF Len(ws) = 5 THEN LegacyZone(ws[5])
                        ELSE [ok |-> TRUE, min |-> zhost * 60]
            IN  IF ValidFields(y, m, d, h, mi, sec) /\ zone.ok
                THEN MakeDate(y, m, d, h, mi, sec, 0, zone.min)
                ELSE InvalidDate

DateParse(s, zhost) ==
    IF IsoParse(s, zhost) # InvalidDate THEN IsoParse(s, zhost)
    ELSE LegacyParse(s, zhost)

\* Completions of a call that produces a Date, or raises.
ReturnDate(d) == [type |-> "return", date |-> d]

Throw(e) == [type |-> "throw", error |-> e]

(***************************************************************************)
(* parseDataFromRfc2822, parseDataFromIso8601                              *)
(***************************************************************************)
\* A parser that raises on a text that is no date, as Date.prototype
\* .toISOString does on an Invalid Date.
parseDataFromRfc2822_Raises(value, zhost) ==
    IF DateParse(value, zhost) = InvalidDate THEN Throw("RangeError")
    ELSE ReturnDate(DateParse(value, zhost))

parseDataFromRfc2822(value, zhost) == ReturnDate(DateParse(value, zhost))

parseDataFromIso8601(value, zhost) == ReturnDate(DateParse(value, zhost))

(***************************************************************************)
(* The calls.  Every function is pure: a call reads its arguments (and,    *)
(* for getFullYear, the host's time zone) and produces a completion.       *)
(***************************************************************************)
\* A normal completion, by the type of the value returned.
ReturnBoolean(b) == [type |-> "return", boolean |-> b]

ReturnString(s) == [type |-> "return", string |-> s]

ReturnNumber(n) == [type |-> "return", number |-> n]

\* The host's offset from UTC in hours; fixed for the life of the process.
HostOffsets == {-5, 0, 3}

\* Instants given to isLeapYear: for each year the first and the last
\* millisecond (UTC) and noon of 1 February.
LeapDates ==
    UNION {{[day |-> DayFromYear(y), ms |-> 0],
            [day |-> DayFromYear(y) + 31, ms |-> 12 * msPerHour],
            [day |-> DayFromYear(y + 1) - 1, ms |-> msPerDay - 1]} :
           y \in AskedYears}

\* Instants given to angleBetweenClockHands: every hour and minute of
\* 2016-03-05 and 2016-04-05 (UTC), on the minute and 30.5 s past it.
ClockDates ==
    {[day |-> d, ms |-> h * msPerHour + m * msPerMinute + s] :
        d \in {16865, 16896}, h \in 0..23, m \in 0..59, s \in {0, 30500}}

\* Instants given to timeSpanToString: two starts on 2000-02-01 and the
\* instants a chosen interval after them.
SpanStarts ==
    {[day |-> 10988, ms |-> 10 * msPerHour],
     [day |-> 10988, ms |-> msPerDay - 1]}

SpanHours == {0, 1, 5, 9, 10, 11, 23, 24, 99} \cup (100..MaxHours)

SpanMinutes == {0, 1, 9, 10, 20, 30, 59}

SpanSeconds == {0, 1, 9, 10, 20, 59}

SpanMillis == {0, 1, 9, 10, 99, 100, 250, 453, 999}

SpanIntervals ==
    {h * msPerHour + m * msPerMinute + s * msPerSecond + ms :
        h \in SpanHours, m \in SpanMinutes, s \in SpanSeconds,
        ms \in SpanMillis}

\* Strings given to the parsers: the examples of the doc comments, further
\* texts of the date-time format, and texts that are no date.
TextDecember1995 ==
    <<"D", "e", "c", "e", "m", "b", "e", "r", " ", "1", "7", ",", " ", "1",
      "9", "9", "5", " ", "0", "3", ":", "2", "4", ":", "0", "0">>

TextJan2016Gmt ==
    <<"T", "u", "e", ",", " ", "2", "6", " ", "J", "a", "n", " ", "2", "0",
      "1", "6", " ", "1", "3", ":", "4", "8", ":", "0", "2", " ", "G", "M",
      "T">>

TextMay1998GmtPlus1 ==
    <<"S", "u", "n", ",", " ", "1", "7", " ", "M", "a", "y", " ", "1", "9",
      "9", "8", " ", "0", "3", ":", "0", "0", ":", "0", "0", " ", "G", "M",
      "T", "+", "0", "1">>

TextIsoOffset ==
    <<"2", "0", "1", "6", "-", "0", "1", "-", "1", "9", "T", "1", "6", ":",
      "0", "7", ":", "3", "7", "+", "0", "0", ":", "0", "0">>

TextIsoZ ==
    <<"2", "0", "1", "6", "-", "0", "1", "-", "1", "9", "T", "0", "8", ":",
      "0", "7", ":", "3", "7", "Z">>

TextIsoMillisWest ==
    <<"2", "0", "1", "6", "-", "0", "1", "-", "1", "9", "T", "0", "8", ":",
      "0", "7", ":", "3", "7", ".", "2", "5", "0", "-", "0", "5", ":", "0",
      "0">>

TextIsoLocal ==
    <<"2", "0", "1", "6", "-", "0", "1", "-", "1", "9", "T", "0", "8", ":",
      "0", "7", ":", "3", "7">>

TextIsoDateOnly ==
    <<"2", "0", "1", "6", "-", "0", "1", "-", "1", "9">>

TextNotADate ==
    <<"n", "o", "t", " ", "a", " ", "d", "a", "t", "e">>

TextMonth13 ==
    <<"2", "0", "1", "6", "-", "1", "3", "-", "1", "9", "T", "0", "8", ":",
      "0", "7", ":", "3", "7", "Z">>

TextNoSuchMonth ==
    <<"T", "u", "e", ",", " ", "2", "6", " ", "F", "o", "o", " ", "2", "0",
      "1", "6", " ", "1", "3", ":", "4", "8", ":", "0", "2", " ", "G", "M",
      "T">>

TextEmpty == <<>>

DateTexts ==
    {TextDecember1995,
     TextJan2016Gmt,
     TextMay1998GmtPlus1,
     TextIsoOffset,
     TextIsoZ,
     TextIsoMillisWest,
     TextIsoLocal,
     TextIsoDateOnly}

NoDateTexts == {TextNotADate, TextMonth13, TextNoSuchMonth, TextEmpty}

Texts == DateTexts \cup NoDateTexts

\* The ends of the range of Date, 8.64e15 ms either side of the epoch, and
\* the last millisecond before the upper end.
FarDates ==
    {[day |-> -MaxDateDay, ms |-> 0],
     [day |-> MaxDateDay - 1, ms |-> msPerDay - 1],
     [day |-> MaxDateDay, ms |-> 0]}

\* Pairs <<startDate, endDate>> given to timeSpanToString.
SpanPairs ==
    {<<s, Plus(s, n)>> : s \in SpanStarts, n \in SpanIntervals}
        \cup {<<Plus(s, n), s>> : s \in SpanStarts, n \in SpanIntervals}
        \cup (FarDates \X FarDates)

Init ==
    /\ tz \in HostOffsets
    /\ pc = "idle"
    /\ fn = "none"
    /\ arg = None
    /\ arg2 = None
    /\ ret = None

CallParseDataFromRfc2822 ==
    /\ pc = "idle"
    /\ \E v \in Texts :
        /\ arg' = v
        /\ ret' = parseDataFromRfc2822(v, tz)
    /\ arg2' = None
    /\ fn' = "parseDataFromRfc2822"
    /\ pc' = "returned"
    /\ UNCHANGED tz

CallParseDataFromIso8601 ==
    /\ pc = "idle"
    /\ \E v \in Texts :
        /\ arg' = v
        /\ ret' = parseDataFromIso8601(v, tz)
    /\ arg2' = None
    /\ fn' = "parseDataFromIso8601"
    /\ pc' = "returned"
    /\ UNCHANGED tz

CallIsLeapYear ==
    /\ pc = "idle"
    /\ \E d \in LeapDates :
        /\ arg' = d
        /\ ret' = ReturnBoolean(isLeapYear(d, tz))
    /\ arg2' = None
    /\ fn' = "isLeapYear"
    /\ pc' = "returned"
    /\ UNCHANGED tz

CallTimeSpanToString ==
    /\ pc = "idle"
    /\ \E p \in SpanPairs :
        /\ arg' = p[1]
        /\ arg2' = p[2]
        /\ ret' = ReturnString(timeSpanToString(p[1], p[2]))
    /\ fn' = "timeSpanToString"
    /\ pc' = "returned"
    /\ UNCHANGED tz

CallAngleBetweenClockHands ==
    /\ pc = "idle"
    /\ \E d \in ClockDates :
        /\ arg' = d
        /\ ret' = ReturnNumber(angleBetweenClockHands(d))
    /\ arg2' = None
    /\ fn' = "angleBetweenClockHands"
    /\ pc' = "returned"
    /\ UNCHANGED tz

\* The caller takes the result; nothing of the call survives it.
Finish ==
    /\ pc = "returned"
    /\ pc' = "idle"
    /\ fn' = "none"
    /\ arg' = None
    /\ arg2' = None
    /\ ret' = None
    /\ UNCHANGED tz

Next ==
    \/ CallParseDataFromRfc2822
    \/ CallParseDataFromIso8601
    \/ CallIsLeapYear
    \/ CallTimeSpanToString
    \/ CallAngleBetweenClockHands
    \/ Finish

Spec == Init /\ [][Next]_vars

(***************************************************************************)
(* Reading a result back.                                                  *)
(***************************************************************************)
\* The four fields of a text H:M:S.MS, as texts.
SpanFields(s) ==
    LET i1 == IndexOf(s, ":")
        r1 == SubSeq(s, i1 + 1, Len(s))
        i2 == IndexOf(r1, ":")
        r2 == SubSeq(r1, i2 + 1, Len(r1))
        i3 == IndexOf(r2, ".")
    IN  [h |-> SubSeq(s, 1, i1 - 1),
         m |-> SubSeq(r1, 1, i2 - 1),
         s |-> SubSeq(r2, 1, i3 - 1),
         ms |-> SubSeq(r2, i3 + 1, Len(r2))]

IsParseCall ==
    pc = "returned" /\ fn \in {"parseDataFromRfc2822", "parseDataFromIso8601"}

\* A Date with a time value: a day number and the milliseconds of the day.
IsInstant(d) ==
    /\ DOMAIN d = {"day", "ms"}
    /\ d.day \in Int
    /\ d.ms \in 0..(msPerDay - 1)

IsAngleCall == pc = "returned" /\ fn = "angleBetweenClockHands"

IsSpanCall == pc = "returned" /\ fn = "timeSpanToString"

IsLeapCall == pc = "returned" /\ fn = "isLeapYear"

\* The two instants of the call are at most 24 days apart.
IsNearPair == arg2.day - arg.day \in -24..24

\* endDate - startDate in milliseconds, for instants at most 24 days apart.
SpanMs == (arg2.day - arg.day) * msPerDay + (arg2.ms - arg.ms)

\* The text timeSpanToString returns for two instants further apart than
\* the largest time value, whose difference is no Date.
NaNSpan ==
    <<"N", "a", "N", ":", "N", "a", "N", ":", "N", "a", "N", ".",
      "N", "a", "N">>

\* Twice the angle in degrees from the hour hand at 30*(h mod 12) + m/2 to
\* the minute hand at 6*m, for the UTC hour h and minute m of the instant d.
HandsApart2(d) ==
    LET h == getUTCHours(d)
        m == getUTCMinutes(d)
    IN  Abs(2 * 30 * (h % 12) + m - 2 * 6 * m)

(***************************************************************************)
(* C1: angleBetweenClockHands returns a value in [0, pi] for every UTC     *)
(* hour and minute: the fraction of pi it returns is neither negative nor  *)
(* more than 1.                                                            *)
(***************************************************************************)
C1_AngleWithinZeroAndPi ==
    IsAngleCall => 0 <= ret.number.num /\ ret.number.num <= ret.number.den

(***************************************************************************)
(* C2: the angle returned is the smaller angle between the two hands,      *)
(* min(d, 360 - d) degrees with d = |30*(h mod 12) + 0.5*m - 6*m|.         *)
(***************************************************************************)
C2_AngleIsSmallerAngle ==
    IsAngleCall =>
        ret.number = ToRadians(Min(HandsApart2(arg), 720 - HandsApart2(arg)))

(***************************************************************************)
(* C3: with d = |end - start| ms, timeSpanToString returns H:M:S.MS with   *)
(* H = floor(d/3600000), M = floor(d/60000) mod 60, S = floor(d/1000) mod  *)
(* 60, MS = d mod 1000; M, S in 0..59, MS in 0..999, and the fields add up *)
(* to d.                                                                   *)
(***************************************************************************)
C3_SpanFieldsAreTheInterval ==
    IsSpanCall =>
        LET f == SpanFields(ret.string)
            d == Abs(SpanMs)
        IN  /\ AllDigits(f.h) /\ AllDigits(f.m)
            /\ AllDigits(f.s) /\ AllDigits(f.ms)
            /\ IsNearPair =>
                /\ DigitsValue(f.h) = d \div 3600000
                /\ DigitsValue(f.m) = (d \div 60000) % 60
                /\ DigitsValue(f.s) = (d \div 1000) % 60
                /\ DigitsValue(f.ms) = d % 1000
                /\ DigitsValue(f.m) \in 0..59
                /\ DigitsValue(f.s) \in 0..59
                /\ DigitsValue(f.ms) \in 0..999
                /\ DigitsValue(f.h) * 3600000 + DigitsValue(f.m) * 60000
                       + DigitsValue(f.s) * 1000 + DigitsValue(f.ms) = d

\* What the code does instead: the fields are those of the interval unless
\* the instants are more than 8.64e15 ms apart, and then the text is
\* NaN:NaN:NaN.NaN.
SpanFieldsOrNaN ==
    IsSpanCall =>
        IF TimeClip(Minus(arg2, arg)) = InvalidDate
        THEN ret.string = NaNSpan
        ELSE LET f == SpanFields(ret.string)
                 d == Abs(SpanMs)
             IN  /\ AllDigits(f.h) /\ AllDigits(f.m)
                 /\ AllDigits(f.s) /\ AllDigits(f.ms)
                 /\ DigitsValue(f.h) = d \div 3600000
                 /\ DigitsValue(f.m) = (d \div 60000) % 60
                 /\ DigitsValue(f.s) = (d \div 1000) % 60
                 /\ DigitsValue(f.ms) = d % 1000

(***************************************************************************)
(* C4: isLeapYear returns true exactly when the year y it reads from the   *)
(* instant is divisible by 4 and (not by 100, or by 400); 1900 -> false,   *)
(* 2000 -> true, 2001 -> false, 2012 -> true, 2015 -> false.               *)
(***************************************************************************)
C4_LeapYearRule ==
    IsLeapCall =>
        LET y == getFullYear(arg, tz)
        IN  /\ ret.boolean = (y % 4 = 0 /\ (y % 100 # 0 \/ y % 400 = 0))
            /\ y = 1900 => ret.boolean = FALSE
            /\ y = 2000 => ret.boolean = TRUE
            /\ y = 2001 => ret.boolean = FALSE
            /\ y = 2012 => ret.boolean = TRUE
            /\ y = 2015 => ret.boolean = FALSE

\* The year 2000, a century year that is a leap year, has been asked about.
C4_Witness ==
    IsLeapCall /\ getFullYear(arg, tz) = 2000 /\ ret.boolean = TRUE

(***************************************************************************)
(* C5: timeSpanToString(a, b) and timeSpanToString(b, a) are the same      *)
(* text, also when the first argument is the later instant.                *)
(***************************************************************************)
C5_SpanSymmetric ==
    IsSpanCall => ret.string = timeSpanToString(arg2, arg)

\* A call whose first argument is the later instant.
C5_Witness ==
    IsSpanCall /\ IsNearPair /\ SpanMs < 0 /\ Len(ret.string) = 12

(***************************************************************************)
(* C6: minutes and seconds are exactly 2 digits, milliseconds exactly 3,   *)
(* hours at least 2: zero-padded to 2 below 10 hours, written in full with *)
(* 3 or more digits from 100 hours on.                                     *)
(***************************************************************************)
C6_SpanFieldWidths ==
    IsSpanCall =>
        LET f == SpanFields(ret.string)
            d == Abs(SpanMs)
        IN  /\ AllDigits(f.h) /\ AllDigits(f.m)
            /\ AllDigits(f.s) /\ AllDigits(f.ms)
            /\ Len(f.m) = 2
            /\ Len(f.s) = 2
            /\ Len(f.ms) = 3
            /\ Len(f.h) >= 2
            /\ IsNearPair =>
                /\ d < 10 * 3600000 => Len(f.h) = 2 /\ f.h[1] = "0"
                /\ d >= 100 * 3600000 =>
                       /\ Len(f.h) >= 3
                       /\ f.h = Digits(d \div 3600000)

\* What the code does instead: the widths are as stated unless the instants
\* are more than 8.64e15 ms apart, and then every field is the text NaN.
SpanFieldWidthsOrNaN ==
    IsSpanCall =>
        LET f == SpanFields(ret.string)
            d == Abs(SpanMs)
        IN  IF TimeClip(Minus(arg2, arg)) = InvalidDate
            THEN f = [h |-> <<"N", "a", "N">>, m |-> <<"N", "a", "N">>,
                      s |-> <<"N", "a", "N">>, ms |-> <<"N", "a", "N">>]
            ELSE /\ AllDigits(f.h) /\ AllDigits(f.m)
                 /\ AllDigits(f.s) /\ AllDigits(f.ms)
                 /\ Len(f.m) = 2 /\ Len(f.s) = 2 /\ Len(f.ms) = 3
                 /\ Len(f.h) >= 2
                 /\ d < 10 * 3600000 => Len(f.h) = 2 /\ f.h[1] = "0"
                 /\ d >= 100 * 3600000 =>
                        /\ Len(f.h) >= 3
                        /\ f.h = Digits(d \div 3600000)

(***************************************************************************)
(* C7: for every input string both parsers finish by returning a value and *)
(* never raise: a text that is a date gives an instant, a text that is     *)
(* none ("not a date") gives the Invalid Date.                             *)
(***************************************************************************)
C7_ParsersReturnNeverRaise ==
    IsParseCall =>
        /\ ret.type = "return"
        /\ arg \in DateTexts => IsInstant(ret.date)
        /\ arg \in NoDateTexts => ret.date = InvalidDate

\* "not a date" has been given to parseDataFromRfc2822, which returned the
\* Invalid Date.
C7_Witness ==
    /\ IsParseCall
    /\ fn = "parseDataFromRfc2822"
    /\ arg = TextNotADate
    /\ ret = ReturnDate(InvalidDate)

(***************************************************************************)
(* C8: angleBetweenClockHands returns exactly pi whenever the hands are    *)
(* exactly 180 degrees apart (06:00 and 18:00), and 00:00 -> 0,            *)
(* 03:00 -> pi/2, 18:00 -> pi, 21:00 -> pi/2.                              *)
(***************************************************************************)
C8_DocumentedAngles ==
    IsAngleCall =>
        LET h == getUTCHours(arg)
            m == getUTCMinutes(arg)
        IN  /\ HandsApart2(arg) = 360 => ret.number = [num |-> 1, den |-> 1]
            /\ (h = 6 /\ m = 0) => ret.number = [num |-> 1, den |-> 1]
            /\ (h = 18 /\ m = 0) => ret.number = [num |-> 1, den |-> 1]
            /\ (h = 0 /\ m = 0) => ret.number = [num |-> 0, den |-> 1]
            /\ (h = 3 /\ m = 0) => ret.number = [num |-> 1, den |-> 2]
            /\ (h = 21 /\ m = 0) => ret.number = [num |-> 1, den |-> 2]

\* 21:00 has been asked about: the hour is reduced and the reflex angle of
\* 270 degrees is turned into 90.
C8_Witness ==
    /\ IsAngleCall
    /\ getUTCHours(arg) = 21 /\ getUTCMinutes(arg) = 0
    /\ ret.number = [num |-> 1, den |-> 2]

(***************************************************************************)
(* C9: the hour is taken modulo 12: the angle for h:m equals the angle for *)
(* (h+12):m for every h in 0..11, also for h = 0, where 12 stays 12.       *)
(***************************************************************************)
C9_HourModuloTwelve ==
    IsAngleCall =>
        LET other ==
                IF getUTCHours(arg) < 12
                THEN [arg EXCEPT !.ms = @ + 12 * msPerHour]
                ELSE [arg EXCEPT !.ms = @ - 12 * msPerHour]
        IN  ret.number = angleBetweenClockHands(other)

\* 12:40 has been asked about: the hour stays 12 and the result is the
\* angle of 00:40, 140 degrees.
C9_Witness ==
    /\ IsAngleCall
    /\ getUTCHours(arg) = 12 /\ getUTCMinutes(arg) = 40
    /\ ret.number = ToRadians(280)

(***************************************************************************)
(* C10: for one and the same instant, isLeapYear gives the same result     *)
(* whatever the host's time-zone offset is: the result is that of the UTC  *)
(* calendar year of the instant.                                           *)
(***************************************************************************)
C10_LeapYearHostIndependent ==
    IsLeapCall =>
        LET y == YearFromDay(arg.day)
        IN  ret.boolean = (y % 4 = 0 /\ (y % 100 # 0 \/ y % 400 = 0))

====
